---- MODULE Spec2Model ----
(***************************************************************************)
(* map-proxy (src/map-proxy/main.go): the refresh loop of main, one run of *)
(* loadPeersData, loadDeals, and the green/blue cache read by the HTTP     *)
(* handler.  The file holds two revisions of the program: lines 1-272      *)
(* (loadPeersData returns an error) and lines 274-513 (loadPeersData exits *)
(* the process when the directory query fails); `variant' says which one   *)
(* is running.                                                             *)
(* relay-mon (src/relay-mon/main.go): main, its two query goroutines and   *)
(* the two unbuffered channels between them.                               *)
(***************************************************************************)
EXTENDS Integers, Sequences, FiniteSets, TLC

VARIABLES
  variant,      \* 1: main.go lines 1-272, 2: main.go lines 274-513
  rvState,      \* what rv.Info answers: addr -> list of server IPs
  dwhDeals,     \* what dwh.GetDeals answers: eth address -> list of deals
  pc,           \* position of the main goroutine
  caller,       \* who called loadPeersData: "startup" (209) or "tick" (241)
  work,         \* loadPeersData: the (addr, srv) iterations still to run
  peers,        \* loadPeersData: the map being built, then update's argument
  green, blue,  \* cache.green, cache.blue
  mu,           \* cache.mu: the set of goroutines holding it
  tick,         \* number of ticks buffered in tk.C (capacity 1)
  http,         \* the HTTP goroutine: "off", "spawned", "serving"
  rpc,          \* position of each HTTP handler goroutine
  rret,         \* the value each handler's data.get() is about to return
  exitCause,    \* why the process ended ("none" while it runs)
  installed,    \* history: the constructor's snapshot and every update argument
  cacheAtStart, \* history: <<green, blue>> when the current run began
  lastRun,      \* history: outcome of the latest loadPeersData run
  runs,         \* history: loadPeersData runs in flight
  iterLog,      \* history: the outcome of each iteration of the current run
  inflight,     \* loadPeersData: the iterations whose lookups are in flight
  rsince,       \* history: updates called since each get began ("na": not counted)
  endpointFlag,      \* relay-mon: the -endpoint flag
  expectedCountFlag, \* relay-mon: the -count flag, a uint
  rmPc,              \* relay-mon: position of main
  clusterPc,         \* relay-mon: position of the goroutine of line 82
  metricsPc,         \* relay-mon: position of the goroutine of line 92
  clusterReply,      \* relay-mon: what relay.Cluster returned (number of members)
  metricsReply,      \* relay-mon: what relay.Metrics returned (ConnCurrent)
  cluster,           \* relay-mon: main's local `cluster', <<>> until received
  metrics,           \* relay-mon: main's local `metrics', <<>> until received
  membersDiff,       \* relay-mon: main's local `membersDiff'
  stdout,            \* relay-mon: the lines written by fmt.Printf
  rmExit             \* relay-mon: "running", or the way the process ended

relayVars == <<endpointFlag, expectedCountFlag, rmPc, clusterPc, metricsPc,
               clusterReply, metricsReply, cluster, metrics, membersDiff, stdout,
               rmExit>>

mapVars == <<variant, rvState, dwhDeals, pc, caller, work, peers, green, blue, mu,
             tick, http, rpc, rret, exitCause, installed, cacheAtStart, lastRun, runs,
             iterLog, inflight, rsince>>

vars == <<mapVars, relayVars>>

(***************************************************************************)
(* Bounds                                                                  *)
(***************************************************************************)
NumReaders == 2
MaxServers == 2
MaxDeals == 2
UintBits == 3
MaxMembers == 3
MaxExpected == 4
MaxConn == 1

(***************************************************************************)
(* Values                                                                  *)
(***************************************************************************)
Variants == {1, 2}

Addrs == {"tcp//0xA", "tcp//0xB"}

\* strings.Split(addr, "//")[1], common.HexToAddress(...).Hex()
EthOf(addr) == IF addr = "tcp//0xA" THEN "0xA" ELSE "0xB"

Eths == {EthOf(a) : a \in Addrs}

IPs == {"ip1", "ip2", "ip3"}

\* db.City(ip): the geoip database is a fixed file; ip3 is not in it.
GeoCity(ip) ==
  CASE ip = "ip1" -> [err |-> FALSE, Latitude |-> 10, Longitude |-> 20]
    [] ip = "ip2" -> [err |-> FALSE, Latitude |-> 30, Longitude |-> 40]
    [] OTHER      -> [err |-> TRUE,  Latitude |-> 0,  Longitude |-> 0]

\* The deals a ledger answer is made of (benchmarks and price per second).
DealKinds ==
  { [cpu |-> 2, gpu |-> 0, ram |-> 4, price |-> 0],
    [cpu |-> 1, gpu |-> 1, ram |-> 8, price |-> 1] }

SeqsUpTo(S, n) == UNION {[1..k -> S] : k \in 0..n}

DealLists == SeqsUpTo(DealKinds, MaxDeals)

\* The servers a peer announces: distinct addresses.
ServerLists ==
  {l \in SeqsUpTo(IPs, MaxServers) : \A i, j \in DOMAIN l : i # j => l[i] # l[j]}

SecondsPerHour == 3600

\* A Go map value: nil, or a map from keys to PeerPoint.
EmptyFcn == [k \in {} |-> 0]
NilMap == [nil |-> TRUE, m |-> EmptyFcn]
MkMap(m) == [nil |-> FALSE, m |-> m]
IsNil(x) == x.nil

\* What get returns from slots g, b: the green slot unless it is nil.
ActiveOf(g, b) == IF ~IsNil(g) THEN g ELSE b

\* peers[key] = point
MapPut(x, key, point) ==
  MkMap([k \in (DOMAIN x.m) \cup {key} |-> IF k = key THEN point ELSE x.m[k]])

ZeroPoint ==
  [Lat |-> 0, Lon |-> 0, Count |-> 0, Income |-> 0,
   CPUCount |-> 0, GPUCount |-> 0, RAMSize |-> 0]

(***************************************************************************)
(* loadDeals (lines 128-160): the record built from one ledger answer.     *)
(* Income is kept as the integer perHour (line 155), in wei per hour; the  *)
(* division by params.Ether and the conversion to float64 (156-158) scale  *)
(* that integer by a fixed constant.                                       *)
(***************************************************************************)
RECURSIVE FoldDeals(_, _, _)
FoldDeals(deals, p, income) ==
  IF deals = <<>> THEN [p |-> p, income |-> income]
  ELSE LET deal == Head(deals) IN
       FoldDeals(Tail(deals),
                 [p EXCEPT !.Count = @ + 1,
                           !.CPUCount = @ + deal.cpu,
                           !.GPUCount = @ + deal.gpu,
                           !.RAMSize = deal.ram],
                 income + deal.price)

\* The hourly total is kept in a 12-bit machine word and wraps around.
loadDealsWrapping(deals) ==
  LET r == FoldDeals(deals, ZeroPoint, 0) IN
  [r.p EXCEPT !.Income = (r.income * SecondsPerHour) % 4096]

loadDeals(deals) ==
  LET r == FoldDeals(deals, ZeroPoint, 0) IN
  [r.p EXCEPT !.Income = r.income * SecondsPerHour]

(***************************************************************************)
(* Goroutines                                                              *)
(***************************************************************************)
Main == <<"main", 0>>
Readers == {<<"http", i>> : i \in 1..NumReaders}

Alive == exitCause = "none"

\* The positions of the main goroutine from the call of data.update (247)
\* to its return.
UpdatePcs == {"u_lock", "u_test", "u_green", "u_green2", "u_blue", "u_blue2", "u_unlock"}

\* A Lock that never waits.
CanLockNoWait == TRUE

\* sync.Mutex: Lock returns only when nobody holds the mutex.
CanLock == mu = {}

(***************************************************************************)
(* loadPeersData (lines 162-197, and 434-471 in the second revision)       *)
(***************************************************************************)
\* The orders in which `for addr, state := range info.GetState()' may visit
\* the directory: Go leaves the order of a map's keys unspecified.
Orders == {o \in [1..Cardinality(Addrs) -> Addrs] : \A i, j \in DOMAIN o : i # j => o[i] # o[j]}

\* The iterations of the two nested loops, in order: one per (addr, srv).
RECURSIVE Iterations(_, _)
Iterations(order, info) ==
  IF order = <<>> THEN <<>>
  ELSE [i \in 1..Len(info[Head(order)]) |-> [addr |-> Head(order), ip |-> info[Head(order)][i]]]
       \o Iterations(Tail(order), info)

\* A directory failure at startup is logged and main goes on to build the cache.
InfoErrPcStartupContinues ==
  IF caller = "startup" THEN "construct"
  ELSE IF variant = 1 THEN "select" ELSE "exited"

\* The directory error is dropped and the loop goes on to data.update.
InfoErrPcUpdates ==
  IF caller = "tick" THEN "u_lock" ELSE "exited"

\* Where the main goroutine goes when rv.Info fails: the first revision
\* returns the error (165-167), and main returns at startup (210-213) or
\* continues the loop (242-245); the second revision exits (439-442).
InfoErrPc ==
  IF variant = 1 /\ caller = "tick" THEN "select" ELSE "exited"

InfoErrCause ==
  IF variant = 1 /\ caller = "tick" THEN "none"
  ELSE IF caller = "startup" THEN "startup" ELSE "refresh"

\* main calls loadPeersData at startup (line 209 / 481).
Startup ==
  /\ Alive /\ pc = "startup"
  /\ pc' = "rvinfo" /\ caller' = "startup"
  /\ runs' = runs + 1 /\ lastRun' = "running"
  /\ cacheAtStart' = <<green, blue>>
  /\ iterLog' = {}
  /\ UNCHANGED <<variant, rvState, dwhDeals, work, peers, green, blue, mu, tick,
                 http, rpc, rret, exitCause, installed,
                 inflight, rsince, relayVars>>

\* rv.Info returns an error or times out (164-167 / 438-442).
RvInfoErr ==
  /\ Alive /\ pc = "rvinfo"
  /\ pc' = InfoErrPc /\ exitCause' = InfoErrCause
  /\ runs' = runs - 1 /\ lastRun' = "dirfail"
  /\ UNCHANGED <<variant, rvState, dwhDeals, caller, work, peers, green, blue, mu,
                 tick, http, rpc, rret, installed, cacheAtStart, iterLog,
                 inflight, rsince, relayVars>>

\* rv.Info answers (164-171 / 438-445).
RvInfoOk ==
  /\ Alive /\ pc = "rvinfo"
  /\ \E order \in Orders : work' = Iterations(order, rvState)
  /\ peers' = MkMap(EmptyFcn)
  /\ pc' = "loop"
  /\ UNCHANGED <<variant, rvState, dwhDeals, caller, green, blue, mu, tick, http,
                 rpc, rret, exitCause, installed, cacheAtStart, lastRun, runs,
                 iterLog,
                 inflight, rsince, relayVars>>

\* The record one iteration stores (177, 183-192).
IterPoint(it) ==
  [loadDeals(dwhDeals[EthOf(it.addr)]) EXCEPT
     !.Lat = GeoCity(it.ip).Latitude, !.Lon = GeoCity(it.ip).Longitude]

\* Records at one location are merged into the first of them, summing.
IterStoreMerged(m, it) ==
  LET pt == IterPoint(it)
      same == {k \in DOMAIN m.m : m.m[k].Lat = pt.Lat /\ m.m[k].Lon = pt.Lon}
  IN IF same = {} THEN MapPut(m, EthOf(it.addr), pt)
     ELSE LET k == CHOOSE x \in same : TRUE IN
          MapPut(m, k, [m.m[k] EXCEPT !.Count = @ + pt.Count,
                                      !.CPUCount = @ + pt.CPUCount,
                                      !.GPUCount = @ + pt.GPUCount,
                                      !.Income = @ + pt.Income])

\* A peer that already has a record keeps it: its first location wins.
IterStoreFirstWins(m, it) ==
  IF EthOf(it.addr) \in DOMAIN m.m THEN m ELSE MapPut(m, EthOf(it.addr), IterPoint(it))

\* The map after an iteration whose lookups both succeeded (192).
IterStore(m, it) == MapPut(m, EthOf(it.addr), IterPoint(it))

\* A failed ledger query leaves the peer's empty record in the map.
IterSkipPartial(m, it) == MapPut(m, EthOf(it.addr), ZeroPoint)

\* A failed lookup stores the peer's record without a location.
IterSkipNoLocation(m, it) == MapPut(m, EthOf(it.addr), loadDeals(dwhDeals[EthOf(it.addr)]))

\* The map after an iteration that ends in `continue' (180, 187).
IterSkip(m, it) == m

\* The loops of loadPeersData as a function: the map built from m by the
\* iterations its, in that order, when the ledger queries of the iterations
\* in failed fail and every other lookup answers as the ledger and the geo
\* database do (172-193).
RECURSIVE RunAll(_, _, _)
RunAll(m, its, failed) ==
  IF its = <<>> THEN m
  ELSE LET it == Head(its)
           m1 == IF it \in failed \/ GeoCity(it.ip).err
                 THEN IterSkip(m, it) ELSE IterStore(m, it)
       IN RunAll(m1, Tail(its), failed)

\* Every pending iteration may start, whatever is in flight.
CanStartLookupConcurrently(i) == TRUE

\* The loop body runs for one (addr, srv) at a time, in order: the next
\* iteration starts when the one before it has ended (172-173).
CanStartLookup(i) == i = 1 /\ inflight = {}

\* An iteration starts: loadDeals is called (177 / 451).
LoopCall ==
  /\ Alive /\ pc = "loop"
  /\ \E i \in DOMAIN work :
       /\ work[i] \notin inflight
       /\ CanStartLookup(i)
       /\ inflight' = inflight \cup {work[i]}
  /\ UNCHANGED <<variant, rvState, dwhDeals, pc, caller, work, peers, green, blue,
                 mu, tick, http, rpc, rret, exitCause, installed, cacheAtStart,
                 lastRun, runs, iterLog, rsince, relayVars>>

\* The iteration in flight ends (177-193 / 451-467): loadDeals returns or
\* its 60 s timeout expires, then the geo lookup is made.
LoopIter ==
  /\ Alive /\ pc = "loop" /\ work # <<>> /\ Head(work) \in inflight
  /\ LET it == Head(work) IN
       \/ /\ peers' = IterSkip(peers, it)    \* loadDeals fails: continue (178-181)
          /\ iterLog' = iterLog \cup {[addr |-> it.addr, ip |-> it.ip, res |-> "dwh_err"]}
       \/ /\ GeoCity(it.ip).err              \* db.City fails: continue (185-188)
          /\ peers' = IterSkip(peers, it)
          /\ iterLog' = iterLog \cup {[addr |-> it.addr, ip |-> it.ip, res |-> "geo_err"]}
       \/ /\ ~GeoCity(it.ip).err
          /\ peers' = IterStore(peers, it)
          /\ iterLog' = iterLog \cup {[addr |-> it.addr, ip |-> it.ip, res |-> "ok"]}
  /\ work' = Tail(work)
  /\ inflight' = inflight \ {Head(work)}
  /\ UNCHANGED <<variant, rvState, dwhDeals, pc, caller, green, blue, mu, tick,
                 http, rpc, rret, exitCause, installed, cacheAtStart, lastRun, runs, rsince, relayVars>>

\* An empty result is not handed to data.update.
ReturnPcSkipEmpty ==
  IF caller = "startup" THEN "construct"
  ELSE IF DOMAIN peers.m = {} THEN "select" ELSE "u_lock"

\* Where main goes with the map loadPeersData returned: to the cache's
\* construction at startup (214), to data.update in the loop (247).
ReturnPc == IF caller = "startup" THEN "construct" ELSE "u_lock"

\* One more update has been called since a get began; the count is kept while
\* cacheAtStart still holds the slots that get found.
Overtaken(n) == IF n = "none" THEN "one" ELSE IF n = "one" THEN "more" ELSE n

\* The loops are over: return peers, nil (196 / 470).
LoopReturn ==
  /\ Alive /\ pc = "loop" /\ work = <<>>
  /\ pc' = ReturnPc
  /\ runs' = runs - 1 /\ lastRun' = "ok"
  /\ installed' = IF caller = "tick" THEN installed \cup {peers} ELSE installed
  /\ rsince' = [r \in Readers |-> IF caller = "tick" THEN Overtaken(rsince[r]) ELSE rsince[r]]
  /\ UNCHANGED <<variant, rvState, dwhDeals, caller, work, peers, green, blue, mu,
                 tick, http, rpc, rret, exitCause, cacheAtStart, iterLog, inflight, relayVars>>

(***************************************************************************)
(* main (lines 199-250 / 473-513)                                          *)
(***************************************************************************)
\* The cache is built as the zero value of the struct, without the snapshot.
ConstructZeroValue ==
  /\ Alive /\ pc = "construct"
  /\ green' = NilMap /\ blue' = NilMap
  /\ installed' = {peers}
  /\ http' = "spawned"
  /\ pc' = "select"
  /\ UNCHANGED <<variant, rvState, dwhDeals, caller, work, peers, mu, tick, rpc,
                 rret, exitCause, cacheAtStart, lastRun, runs, iterLog,
                 inflight, rsince, relayVars>>

\* data := cache{green: peers}; the ticker is created and the HTTP
\* goroutine is spawned (214-233 / 482-501).
Construct ==
  /\ Alive /\ pc = "construct"
  /\ green' = peers /\ blue' = NilMap
  /\ installed' = {peers}
  /\ http' = "spawned"
  /\ pc' = "select"
  /\ UNCHANGED <<variant, rvState, dwhDeals, caller, work, peers, mu, tick, rpc,
                 rret, exitCause, cacheAtStart, lastRun, runs, iterLog,
                 inflight, rsince, relayVars>>

\* The ticker fires: tk.C holds one tick, a tick that finds it full is dropped.
Tick ==
  /\ Alive /\ http # "off" /\ tick = 0
  /\ tick' = 1
  /\ UNCHANGED <<variant, rvState, dwhDeals, pc, caller, work, peers, green, blue,
                 mu, http, rpc, rret, exitCause, installed, cacheAtStart, lastRun,
                 runs, iterLog,
                 inflight, rsince, relayVars>>

\* A tick is taken wherever the main goroutine is.
AtSelectAnywhere == pc \in {"select", "rvinfo", "loop"}

\* The main goroutine is at the select of the loop (236).
AtSelect == pc = "select"

\* case <-tk.C: call loadPeersData (240-241 / 508-509).
SelectTick ==
  /\ Alive /\ AtSelect /\ tick = 1
  /\ tick' = 0
  /\ pc' = "rvinfo" /\ caller' = "tick"
  /\ runs' = runs + 1 /\ lastRun' = "running"
  /\ cacheAtStart' = <<green, blue>>
  /\ iterLog' = {}
  /\ rsince' = [r \in Readers |-> IF rsince[r] = "one" THEN "more" ELSE rsince[r]]
  /\ UNCHANGED <<variant, rvState, dwhDeals, work, peers, green, blue, mu, http,
                 rpc, rret, exitCause, installed, inflight, relayVars>>

\* http.ListenAndServe is listening with the handler registered (220-231).
HttpListen ==
  /\ Alive /\ http = "spawned"
  /\ http' = "serving"
  /\ UNCHANGED <<variant, rvState, dwhDeals, pc, caller, work, peers, green, blue,
                 mu, tick, rpc, rret, exitCause, installed, cacheAtStart, lastRun,
                 runs, iterLog,
                 inflight, rsince, relayVars>>

\* http.ListenAndServe returns an error: log.Fatal exits the process (231).
HttpFatal ==
  /\ Alive /\ http \in {"spawned", "serving"}
  /\ exitCause' = "http"
  /\ UNCHANGED <<variant, rvState, dwhDeals, pc, caller, work, peers, green, blue,
                 mu, tick, http, rpc, rret, installed, cacheAtStart, lastRun, runs,
                 iterLog,
                 inflight, rsince, relayVars>>

(***************************************************************************)
(* cache.update (lines 67-78 / 335-348), called by main at 247 / 510       *)
(***************************************************************************)
\* c.mu.Lock() (68)
UpdLock ==
  /\ Alive /\ pc = "u_lock" /\ CanLock
  /\ mu' = mu \cup {Main}
  /\ pc' = "u_test"
  /\ UNCHANGED <<variant, rvState, dwhDeals, caller, work, peers, green, blue, tick,
                 http, rpc, rret, exitCause, installed, cacheAtStart, lastRun, runs,
                 iterLog,
                 inflight, rsince, relayVars>>

\* The update always writes the green slot.
UpdBranchGreen(g) == "u_green"

\* The branch `if c.green == nil' takes (71).
UpdBranch(g) == IF IsNil(g) THEN "u_green" ELSE "u_blue"

UpdTest ==
  /\ Alive /\ pc = "u_test"
  /\ pc' = UpdBranch(green)
  /\ UNCHANGED <<variant, rvState, dwhDeals, caller, work, peers, green, blue, mu,
                 tick, http, rpc, rret, exitCause, installed, cacheAtStart, lastRun,
                 runs, iterLog,
                 inflight, rsince, relayVars>>

\* The second assignment keeps the superseded snapshot in its slot.
UpdClearedKept == IF pc = "u_green2" THEN blue ELSE green

\* The value the second assignment of a branch stores (73, 76).
UpdCleared == NilMap

\* c.green = peers (72) or c.blue = peers (75)
UpdStore ==
  /\ Alive
  /\ \/ /\ pc = "u_green" /\ green' = peers /\ blue' = blue /\ pc' = "u_green2"
     \/ /\ pc = "u_blue"  /\ blue' = peers /\ green' = green /\ pc' = "u_blue2"
  /\ UNCHANGED <<variant, rvState, dwhDeals, caller, work, peers, mu, tick, http,
                 rpc, rret, exitCause, installed, cacheAtStart, lastRun, runs,
                 iterLog,
                 inflight, rsince, relayVars>>

\* c.blue = nil (73) or c.green = nil (76)
UpdClear ==
  /\ Alive
  /\ \/ /\ pc = "u_green2" /\ blue' = UpdCleared /\ green' = green
     \/ /\ pc = "u_blue2"  /\ green' = UpdCleared /\ blue' = blue
  /\ pc' = "u_unlock"
  /\ UNCHANGED <<variant, rvState, dwhDeals, caller, work, peers, mu, tick, http,
                 rpc, rret, exitCause, installed, cacheAtStart, lastRun, runs,
                 iterLog,
                 inflight, rsince, relayVars>>

\* The deferred c.mu.Unlock() (69); update returns and the loop goes on.
UpdUnlock ==
  /\ Alive /\ pc = "u_unlock"
  /\ mu' = mu \ {Main}
  /\ pc' = "select"
  /\ UNCHANGED <<variant, rvState, dwhDeals, caller, work, peers, green, blue, tick,
                 http, rpc, rret, exitCause, installed, cacheAtStart, lastRun, runs,
                 iterLog,
                 inflight, rsince, relayVars>>

(***************************************************************************)
(* The HTTP handler (220-228) and cache.get (lines 80-89 / 350-361)        *)
(***************************************************************************)
\* The history of a get that begins now: it counts the updates called after
\* it when no update is under way; "off" means no history is kept.
Began(n) == IF n = "off" THEN "off" ELSE IF pc \in UpdatePcs THEN "na" ELSE "none"

\* A request arrives: the handler calls data.get() (225).
Request(r) ==
  /\ Alive /\ http = "serving" /\ rpc[r] = "idle"
  /\ rpc' = [rpc EXCEPT ![r] = "g_lock"]
  /\ rsince' = [rsince EXCEPT ![r] = Began(rsince[r])]
  /\ UNCHANGED <<variant, rvState, dwhDeals, pc, caller, work, peers, green, blue,
                 mu, tick, http, rret, exitCause, installed, cacheAtStart, lastRun,
                 runs, iterLog, inflight, relayVars>>

\* c.mu.Lock() (81)
GetLock(r) ==
  /\ Alive /\ rpc[r] = "g_lock" /\ CanLock
  /\ mu' = mu \cup {r}
  /\ rpc' = [rpc EXCEPT ![r] = "g_test"]
  /\ UNCHANGED <<variant, rvState, dwhDeals, pc, caller, work, peers, green, blue,
                 tick, http, rret, exitCause, installed, cacheAtStart, lastRun, runs,
                 iterLog,
                 inflight, rsince, relayVars>>

\* get always answers from the blue slot.
GetBranchBlue(g) == "g_blue"

\* The branch `if c.green != nil' takes (84).
GetBranch(g) == IF ~IsNil(g) THEN "g_green" ELSE "g_blue"

GetTest(r) ==
  /\ Alive /\ rpc[r] = "g_test"
  /\ rpc' = [rpc EXCEPT ![r] = GetBranch(green)]
  /\ UNCHANGED <<variant, rvState, dwhDeals, pc, caller, work, peers, green, blue,
                 mu, tick, http, rret, exitCause, installed, cacheAtStart, lastRun,
                 runs, iterLog,
                 inflight, rsince, relayVars>>

\* A get that finds no snapshot allocates an empty one and installs it.
GetReadAllocates(r) ==
  /\ Alive /\ rpc[r] \in {"g_green", "g_blue"}
  /\ LET slot == IF rpc[r] = "g_green" THEN green ELSE blue
         val == IF IsNil(slot) THEN MkMap(EmptyFcn) ELSE slot
     IN /\ rret' = [rret EXCEPT ![r] = val]
        /\ green' = IF IsNil(slot) THEN val ELSE green
  /\ rpc' = [rpc EXCEPT ![r] = "g_unlock"]
  /\ UNCHANGED <<variant, rvState, dwhDeals, pc, caller, work, peers, blue,
                 mu, tick, http, exitCause, installed, cacheAtStart, lastRun, runs,
                 iterLog, inflight, rsince, relayVars>>

\* return c.green (85) or return c.blue (87): the result is evaluated.
GetRead(r) ==
  /\ Alive
  /\ \/ /\ rpc[r] = "g_green" /\ rret' = [rret EXCEPT ![r] = green]
     \/ /\ rpc[r] = "g_blue"  /\ rret' = [rret EXCEPT ![r] = blue]
  /\ rpc' = [rpc EXCEPT ![r] = "g_unlock"]
  /\ UNCHANGED <<variant, rvState, dwhDeals, pc, caller, work, peers, green, blue,
                 mu, tick, http, exitCause, installed, cacheAtStart, lastRun, runs,
                 iterLog,
                 inflight, rsince, relayVars>>

\* The deferred c.mu.Unlock() (82); get returns and the handler answers.
GetUnlock(r) ==
  /\ Alive /\ rpc[r] = "g_unlock"
  /\ mu' = mu \ {r}
  /\ rpc' = [rpc EXCEPT ![r] = "idle"]
  /\ rret' = [rret EXCEPT ![r] = NilMap]
  /\ rsince' = [rsince EXCEPT ![r] = IF rsince[r] = "off" THEN "off" ELSE "na"]
  /\ UNCHANGED <<variant, rvState, dwhDeals, pc, caller, work, peers, green, blue,
                 tick, http, exitCause, installed, cacheAtStart, lastRun, runs,
                 iterLog, inflight, relayVars>>

(***************************************************************************)
(* relay-mon (src/relay-mon/main.go, lines 35-114)                         *)
(***************************************************************************)
\* 2^n
RECURSIVE Pow2(_)
Pow2(n) == IF n = 0 THEN 1 ELSE 2 * Pow2(n - 1)

\* The number of values of a uint of UintBits bits.
UintMod == Pow2(UintBits)

\* The subtraction is made on signed integers.
UintSubSigned(a, b) == a - b

\* a - b on uint operands: Go wraps the result modulo 2^w (107).
UintSub(a, b) == (a - b) % UintMod

\* A goroutine whose query failed logs the error and returns.
QueryErrExitNone == "running"

\* A goroutine whose query failed calls os.Exit(1) (86, 96).
QueryErrExit == "exit1"

\* Main is at `metrics := <-metricsChan' (103).
RecvMetricsAt == rmPc = "recv_metrics"

RmAlive == rmExit = "running"

\* The flag checks (36-44).
RmCheckFlags ==
  /\ RmAlive /\ rmPc = "flags"
  /\ IF endpointFlag = "" \/ expectedCountFlag = 0
     THEN rmExit' = "exit1" /\ rmPc' = rmPc
     ELSE rmExit' = rmExit /\ rmPc' = "setup"
  /\ UNCHANGED <<endpointFlag, expectedCountFlag, clusterPc, metricsPc, clusterReply,
                 metricsReply, cluster, metrics, membersDiff, stdout, mapVars>>

\* The log file, the key, the TLS config and the client are set up (46-76).
RmSetupOk ==
  /\ RmAlive /\ rmPc = "setup"
  /\ rmPc' = "go_cluster"
  /\ UNCHANGED <<endpointFlag, expectedCountFlag, clusterPc, metricsPc, clusterReply,
                 metricsReply, cluster, metrics, membersDiff, stdout, rmExit, mapVars>>

\* One of the set-up steps fails: os.Exit(1) (50, 59, 68, 75).
RmSetupErr ==
  /\ RmAlive /\ rmPc = "setup"
  /\ rmExit' = "exit1"
  /\ UNCHANGED <<endpointFlag, expectedCountFlag, rmPc, clusterPc, metricsPc,
                 clusterReply, metricsReply, cluster, metrics, membersDiff, stdout,
                 mapVars>>

\* The channels are made and the cluster goroutine is started (78-82).
RmGoCluster ==
  /\ RmAlive /\ rmPc = "go_cluster"
  /\ clusterPc' = "query" /\ rmPc' = "go_metrics"
  /\ UNCHANGED <<endpointFlag, expectedCountFlag, metricsPc, clusterReply,
                 metricsReply, cluster, metrics, membersDiff, stdout, rmExit, mapVars>>

\* The metrics goroutine is started (92); main goes on to line 102.
RmGoMetrics ==
  /\ RmAlive /\ rmPc = "go_metrics"
  /\ metricsPc' = "query" /\ rmPc' = "recv_cluster"
  /\ UNCHANGED <<endpointFlag, expectedCountFlag, clusterPc, clusterReply,
                 metricsReply, cluster, metrics, membersDiff, stdout, rmExit, mapVars>>

\* relay.Cluster answers (83).
ClusterOk ==
  /\ RmAlive /\ clusterPc = "query"
  /\ \E n \in 0..MaxMembers : clusterReply' = <<n>>
  /\ clusterPc' = "send"
  /\ UNCHANGED <<endpointFlag, expectedCountFlag, rmPc, metricsPc, metricsReply,
                 cluster, metrics, membersDiff, stdout, rmExit, mapVars>>

\* relay.Cluster fails or the 5 s of ctx run out (83-87).
ClusterErr ==
  /\ RmAlive /\ clusterPc = "query"
  /\ clusterPc' = "done" /\ rmExit' = QueryErrExit
  /\ UNCHANGED <<endpointFlag, expectedCountFlag, rmPc, metricsPc, clusterReply,
                 metricsReply, cluster, metrics, membersDiff, stdout, mapVars>>

\* relay.Metrics answers (93).
MetricsOk ==
  /\ RmAlive /\ metricsPc = "query"
  /\ \E n \in 0..MaxConn : metricsReply' = <<n>>
  /\ metricsPc' = "send"
  /\ UNCHANGED <<endpointFlag, expectedCountFlag, rmPc, clusterPc, clusterReply,
                 cluster, metrics, membersDiff, stdout, rmExit, mapVars>>

\* relay.Metrics fails or the 5 s of ctx run out (93-97).
MetricsErr ==
  /\ RmAlive /\ metricsPc = "query"
  /\ metricsPc' = "done" /\ rmExit' = QueryErrExit
  /\ UNCHANGED <<endpointFlag, expectedCountFlag, rmPc, clusterPc, clusterReply,
                 metricsReply, cluster, metrics, membersDiff, stdout, mapVars>>

\* clusterChan is unbuffered: the send of line 89 and the receive of line
\* 102 happen together.
ClusterSend ==
  /\ RmAlive /\ clusterPc = "send" /\ rmPc = "recv_cluster"
  /\ cluster' = clusterReply
  /\ clusterPc' = "done" /\ rmPc' = "recv_metrics"
  /\ UNCHANGED <<endpointFlag, expectedCountFlag, metricsPc, clusterReply,
                 metricsReply, metrics, membersDiff, stdout, rmExit, mapVars>>

\* metricsChan is unbuffered: the send of line 99 and the receive of line
\* 103 happen together.
MetricsSend ==
  /\ RmAlive /\ metricsPc = "send" /\ RecvMetricsAt
  /\ metrics' = metricsReply
  /\ metricsPc' = "done" /\ rmPc' = "calc"
  /\ UNCHANGED <<endpointFlag, expectedCountFlag, clusterPc, clusterReply,
                 metricsReply, cluster, membersDiff, stdout, rmExit, mapVars>>

\* members, membersDiff and connCount are computed (106-109).
RmCalc ==
  /\ RmAlive /\ rmPc = "calc"
  /\ membersDiff' = UintSub(cluster[1], expectedCountFlag)
  /\ rmPc' = "print"
  /\ UNCHANGED <<endpointFlag, expectedCountFlag, clusterPc, metricsPc, clusterReply,
                 metricsReply, cluster, metrics, stdout, rmExit, mapVars>>

\* fmt.Printf writes the line (112-113).
RmPrint ==
  /\ RmAlive /\ rmPc = "print"
  /\ stdout' = Append(stdout, [members |-> cluster[1], expect |-> expectedCountFlag,
                               diff |-> membersDiff, conn_count |-> metrics[1]])
  /\ rmPc' = "return"
  /\ UNCHANGED <<endpointFlag, expectedCountFlag, clusterPc, metricsPc, clusterReply,
                 metricsReply, cluster, metrics, membersDiff, rmExit, mapVars>>

\* main returns (114): the process ends with status 0.
RmReturn ==
  /\ RmAlive /\ rmPc = "return"
  /\ rmExit' = "exit0" /\ rmPc' = "done"
  /\ UNCHANGED <<endpointFlag, expectedCountFlag, clusterPc, metricsPc, clusterReply,
                 metricsReply, cluster, metrics, membersDiff, stdout, mapVars>>

\* relay-mon's variables while the process is not running.
RelayOff ==
  /\ endpointFlag = "" /\ expectedCountFlag = 0
  /\ rmPc = "off" /\ clusterPc = "off" /\ metricsPc = "off"
  /\ clusterReply = <<>> /\ metricsReply = <<>>
  /\ cluster = <<>> /\ metrics = <<>>
  /\ membersDiff = 0 /\ stdout = <<>>
  /\ rmExit = "off"

(***************************************************************************)
(* Specifications                                                          *)
(***************************************************************************)
\* The state of the process when main starts.
InitProgram ==
  /\ variant \in Variants
  /\ pc = "startup" /\ caller = "startup"
  /\ work = <<>> /\ peers = NilMap
  /\ green = NilMap /\ blue = NilMap /\ mu = {}
  /\ tick = 0 /\ http = "off"
  /\ rpc = [r \in Readers |-> "idle"] /\ rret = [r \in Readers |-> NilMap]
  /\ exitCause = "none"
  /\ installed = {} /\ cacheAtStart = <<NilMap, NilMap>>
  /\ lastRun = "none" /\ runs = 0 /\ iterLog = {}
  /\ inflight = {}

\* The directories and ledgers the refresh loop is explored with.
LoopDirectories ==
  { [a \in Addrs |-> <<"ip1">>],
    [a \in Addrs |-> IF a = "tcp//0xA" THEN <<"ip1", "ip2">> ELSE <<"ip3">>] }

LoopLedger ==
  [e \in Eths |-> IF e = "0xA"
                  THEN <<[cpu |-> 2, gpu |-> 0, ram |-> 4, price |-> 0],
                         [cpu |-> 1, gpu |-> 1, ram |-> 8, price |-> 1]>>
                  ELSE <<[cpu |-> 2, gpu |-> 0, ram |-> 4, price |-> 0]>>]

Init ==
  /\ InitProgram
  /\ rvState \in LoopDirectories
  /\ dwhDeals = LoopLedger
  /\ rsince = [r \in Readers |-> "off"]
  /\ RelayOff

Next ==
  \/ Startup \/ RvInfoErr \/ RvInfoOk \/ LoopCall \/ LoopIter \/ LoopReturn
  \/ Construct \/ Tick \/ SelectTick \/ HttpListen \/ HttpFatal
  \/ UpdLock \/ UpdTest \/ UpdStore \/ UpdClear \/ UpdUnlock
  \/ \E r \in Readers :
       Request(r) \/ GetLock(r) \/ GetTest(r) \/ GetRead(r) \/ GetUnlock(r)

Spec == Init /\ [][Next]_vars

\* The directories loadPeersData is explored with on its own: the first peer
\* announces up to MaxServers servers, the second fewer.
AggDirectories == {d \in [Addrs -> ServerLists] : Len(d["tcp//0xB"]) < MaxServers}

\* One run of loadPeersData, the one main makes at startup, over these
\* directories and every ledger in which the first peer has up to MaxDeals
\* deals and the second at most one.
InitAgg ==
  /\ InitProgram
  /\ rvState \in AggDirectories
  /\ dwhDeals \in {l \in [Eths -> DealLists] : Len(l["0xB"]) <= 1}
  /\ rsince = [r \in Readers |-> "off"]
  /\ RelayOff

NextAgg == Startup \/ RvInfoErr \/ RvInfoOk \/ LoopCall \/ LoopIter \/ LoopReturn

SpecAgg == InitAgg /\ [][NextAgg]_vars

\* The same run over the same directories with the ledger of the refresh
\* loop, in which both peers have deals.
InitOrder ==
  /\ InitProgram
  /\ rvState \in AggDirectories
  /\ dwhDeals = LoopLedger
  /\ rsince = [r \in Readers |-> "off"]
  /\ RelayOff

SpecOrder == InitOrder /\ [][NextAgg]_vars

\* The refresh loop of the first revision with its readers, over a directory
\* whose servers include one that cannot be located, keeping for every get the
\* history of the updates called since it began.
InitGet ==
  /\ InitProgram
  /\ variant = 1
  /\ rvState = [a \in Addrs |-> IF a = "tcp//0xA" THEN <<"ip1", "ip2">> ELSE <<"ip3">>]
  /\ dwhDeals = LoopLedger
  /\ rsince = [r \in Readers |-> "na"]
  /\ RelayOff

SpecGet == InitGet /\ [][Next]_vars

\* The maps a cache is given: the empty map loadPeersData starts from and the
\* maps it builds from it.
CachePeers ==
  LET e == MkMap(EmptyFcn)
      a == [addr |-> "tcp//0xA", ip |-> "ip1"]
      b == [addr |-> "tcp//0xB", ip |-> "ip2"]
  IN {e, IterStore(e, a), IterStore(e, b), IterStore(IterStore(e, a), b)}

\* cache.get on its own: a cache value that is the zero value of the struct
\* (both slots nil), or holds one map in one slot as the constructor and
\* update leave it, with the handler's goroutines calling get on it.
InitCache ==
  /\ variant = 1
  /\ rvState = [a \in Addrs |-> <<"ip1">>]
  /\ dwhDeals = LoopLedger
  /\ pc = "select" /\ caller = "startup"
  /\ work = <<>> /\ peers = NilMap /\ mu = {}
  /\ \/ green = NilMap /\ blue = NilMap
     \/ green \in CachePeers /\ blue = NilMap
     \/ green = NilMap /\ blue \in CachePeers
  /\ tick = 0 /\ http = "serving"
  /\ rpc = [r \in Readers |-> "idle"] /\ rret = [r \in Readers |-> NilMap]
  /\ exitCause = "none"
  /\ installed = {green, blue} \ {NilMap} /\ cacheAtStart = <<green, blue>>
  /\ lastRun = "none" /\ runs = 0 /\ iterLog = {}
  /\ inflight = {}
  /\ rsince = [r \in Readers |-> "off"]
  /\ RelayOff

NextCache ==
  \E r \in Readers :
    Request(r) \/ GetLock(r) \/ GetTest(r) \/ GetRead(r) \/ GetUnlock(r)

SpecCache == InitCache /\ [][NextCache]_vars

\* relay-mon when main starts, with the flags as flag.Parse left them (27-33).
InitRelay ==
  /\ InitProgram
  /\ variant = 1 /\ rvState = [a \in Addrs |-> <<"ip1">>] /\ dwhDeals = LoopLedger
  /\ rsince = [r \in Readers |-> "off"]
  /\ endpointFlag \in {"", "10.0.0.1:12240"}
  /\ expectedCountFlag \in 0..MaxExpected
  /\ rmPc = "flags" /\ clusterPc = "off" /\ metricsPc = "off"
  /\ clusterReply = <<>> /\ metricsReply = <<>>
  /\ cluster = <<>> /\ metrics = <<>>
  /\ membersDiff = 0 /\ stdout = <<>>
  /\ rmExit = "running"

NextRelay ==
  \/ RmCheckFlags \/ RmSetupOk \/ RmSetupErr \/ RmGoCluster \/ RmGoMetrics
  \/ ClusterOk \/ ClusterErr \/ MetricsOk \/ MetricsErr
  \/ ClusterSend \/ MetricsSend \/ RmCalc \/ RmPrint \/ RmReturn

\* The Go scheduler runs a goroutine that can make a step, and every query
\* returns within the 5 s of ctx (62): some enabled step is always taken.
SpecRelay == InitRelay /\ [][NextRelay]_vars /\ WF_vars(NextRelay)

(***************************************************************************)
(* Properties                                                              *)
(***************************************************************************)
\* The latest periodic cycle ran to its end and its update has returned.
RefreshInstalled == caller = "tick" /\ lastRun = "ok" /\ pc = "select"

\* The latest periodic cycle ended on a directory failure.
RefreshDirFailed == caller = "tick" /\ lastRun = "dirfail"

\* The iterations of the current run that ended as `res' for peer e.
LogOf(e, res) == {l \in iterLog : EthOf(l.addr) = e /\ l.res = res}

\* The iterations of the current run whose ledger query failed.
LedgerFailed == {[addr |-> l.addr, ip |-> l.ip] : l \in LogOf("0xA", "dwh_err") \cup LogOf("0xB", "dwh_err")}

\* Every order in which the iterations its can be processed.
Perms(its) ==
  LET n == Len(its)
      bij == {f \in [1..n -> 1..n] : \A i, j \in 1..n : i # j => f[i] # f[j]}
  IN {[i \in 1..n |-> its[f[i]]] : f \in bij}

\* Two maps hold records for the same peers with the same totals.
SameTotals(m1, m2) ==
  /\ DOMAIN m1.m = DOMAIN m2.m
  /\ \A k \in DOMAIN m1.m :
       [m1.m[k] EXCEPT !.Lat = 0, !.Lon = 0] = [m2.m[k] EXCEPT !.Lat = 0, !.Lon = 0]

\* The last server of addr, in directory order, whose two lookups succeed
\* (0 when there is none).
LastLocated(addr, failed) ==
  LET srv == rvState[addr]
      oks == {i \in DOMAIN srv : ~GeoCity(srv[i]).err
                                  /\ [addr |-> addr, ip |-> srv[i]] \notin failed}
  IN IF oks = {} THEN 0 ELSE CHOOSE i \in oks : \A j \in oks : j <= i

\* The sum of a sequence of numbers.
RECURSIVE SumSeq(_)
SumSeq(q) == IF q = <<>> THEN 0 ELSE Head(q) + SumSeq(Tail(q))

\* C1: whatever the interleaving of the loop's updates with concurrent gets,
\* the value a get is about to return is one whole snapshot: the one the
\* cache was constructed with or the argument of an update already called;
\* it is never nil and never a value that no refresh produced.
C1_GetReturnsInstalledSnapshot ==
  \A r \in Readers :
    rpc[r] = "g_unlock" => ~IsNil(rret[r]) /\ rret[r] \in installed

\* C1 witness: a get is returning while the loop waits to install another
\* snapshot and at least two different snapshots have been handed over.
C1_Witness ==
  \E r \in Readers :
    rpc[r] = "g_unlock" /\ pc = "u_lock" /\ Cardinality(installed) >= 2

\* C2: when rv.Info fails in a periodic cycle, update is not called in that
\* cycle (the loop is back at the select, or the process has exited), both
\* slots are as they were when the cycle began, and a get returns the
\* snapshot that was active then.
C2_DirFailureKeepsSnapshot ==
  RefreshDirFailed =>
    /\ pc \in {"select", "exited"}
    /\ <<green, blue>> = cacheAtStart
    /\ \A r \in Readers :
         rpc[r] = "g_unlock" => rret[r] = ActiveOf(cacheAtStart[1], cacheAtStart[2])

\* C2 witness: after a failed directory query in the loop a get returns the
\* snapshot an earlier refresh installed in the blue slot.
C2_Witness ==
  /\ RefreshDirFailed /\ pc = "select"
  /\ \E r \in Readers : rpc[r] = "g_unlock" /\ rret[r] = blue /\ ~IsNil(blue)

\* C3 as claimed: once the run has returned, a peer for which a ledger
\* query failed has no record in the snapshot.
C3_FailedPeerHasNoRecord ==
  pc = "construct" =>
    \A e \in Eths : LogOf(e, "dwh_err") # {} => e \notin DOMAIN peers.m

\* C3 amended: an iteration whose ledger query fails stores nothing and does
\* not end the run; the snapshot returned holds a record for exactly the
\* peers that had an iteration in which both lookups succeeded, so a peer
\* all of whose ledger queries failed has none and every other resolvable
\* peer has one.
C3_RecordIffSomeIterationSucceeded ==
  /\ pc = "construct" =>
       \A e \in Eths : e \in DOMAIN peers.m <=> LogOf(e, "ok") # {}
  /\ (\E l \in iterLog : l.res = "dwh_err") =>
       lastRun # "dirfail" /\ Alive

\* C3 witness: the run returned, the ledger query failed in every iteration
\* of one peer, and the other peer has its record.
C3_Witness ==
  /\ pc = "construct"
  /\ LogOf("0xA", "dwh_err") # {} /\ LogOf("0xA", "ok") = {}
  /\ DOMAIN peers.m = {"0xB"}

\* The records of snapshot x that lie at the location of record pt.
AtLocation(x, pt) == {k \in DOMAIN x.m : x.m[k].Lat = pt.Lat /\ x.m[k].Lon = pt.Lon}

\* C4 as claimed: when two distinct peers resolved to one location in a run,
\* the snapshot holds exactly one record at that location, carrying the
\* sums of the two peers' count, cpu_count, gpu_count and income.
C4_OneSummedRecordPerBucket ==
  pc = "construct" =>
    \A l1 \in LogOf("0xA", "ok"), l2 \in LogOf("0xB", "ok") :
      LET a == IterPoint(l1)
          b == IterPoint(l2)
      IN (a.Lat = b.Lat /\ a.Lon = b.Lon) =>
           /\ Cardinality(AtLocation(peers, a)) = 1
           /\ \A k \in AtLocation(peers, a) :
                /\ peers.m[k].Count = a.Count + b.Count
                /\ peers.m[k].CPUCount = a.CPUCount + b.CPUCount
                /\ peers.m[k].GPUCount = a.GPUCount + b.GPUCount
                /\ peers.m[k].Income = a.Income + b.Income

\* C4 amended: the snapshot is keyed by peer address, not by location: each
\* record is the one built in an iteration of its own peer, with that
\* peer's totals alone, so two peers at one location keep two records.
C4_OneRecordPerPeer ==
  pc = "construct" =>
    \A e \in DOMAIN peers.m :
      \E l \in LogOf(e, "ok") : peers.m[e] = IterPoint(l)

\* C4 witness: the run returned two records at the same location whose
\* counts differ.
C4_Witness ==
  /\ pc = "construct"
  /\ DOMAIN peers.m = {"0xA", "0xB"}
  /\ peers.m["0xA"].Lat = peers.m["0xB"].Lat
  /\ peers.m["0xA"].Lon = peers.m["0xB"].Lon
  /\ peers.m["0xA"].Count # peers.m["0xB"].Count

C6_EmptyCycleInstallsNothing ==
  (RefreshInstalled /\ DOMAIN peers.m = {}) => <<green, blue>> = cacheAtStart

\* C6 amended: such a cycle returns an empty, non-nil mapping without an
\* error and update installs it: the active snapshot becomes the empty
\* mapping, the previous snapshot is dropped and the loop is back at the
\* select.
C6_EmptyCycleInstallsEmptySnapshot ==
  (caller = "tick" /\ lastRun = "ok" /\ DOMAIN peers.m = {}) =>
    /\ ~IsNil(peers)
    /\ pc \in UpdatePcs \cup {"select"}
    /\ pc = "select" =>
         /\ ActiveOf(green, blue) = MkMap(EmptyFcn)
         /\ <<green, blue>> # cacheAtStart

\* C6 witness: an empty snapshot has replaced a snapshot that had records.
C6_Witness ==
  /\ RefreshInstalled /\ DOMAIN peers.m = {}
  /\ DOMAIN ActiveOf(cacheAtStart[1], cacheAtStart[2]).m # {}

\* C7: the snapshot of the startup run is in green, and green is the active
\* slot; an update writes the slot that was nil when the cycle began and
\* leaves it the only non-nil one, so that the active slot alternates; a
\* cycle that fails leaves both slots as they were.
C7_UpdatesAlternateSlots ==
  /\ (caller = "startup" /\ pc = "select") =>
       green = peers /\ ~IsNil(green) /\ IsNil(blue)
  /\ RefreshInstalled =>
       IF IsNil(cacheAtStart[1])
       THEN green = peers /\ ~IsNil(green) /\ IsNil(blue) /\ ~IsNil(cacheAtStart[2])
       ELSE blue = peers /\ ~IsNil(blue) /\ IsNil(green) /\ IsNil(cacheAtStart[2])
  /\ RefreshDirFailed => <<green, blue>> = cacheAtStart

\* C7 witness: an update has written green again, after an earlier one had
\* moved the active snapshot to blue.
C7_Witness ==
  RefreshInstalled /\ IsNil(cacheAtStart[1]) /\ ~IsNil(green)

\* C8 as claimed: after an update the slot that is not active still holds
\* the snapshot that was active before.
C8_InactiveSlotKeepsSuperseded ==
  RefreshInstalled =>
    IF IsNil(cacheAtStart[1])
    THEN green = peers /\ blue = cacheAtStart[2]
    ELSE blue = peers /\ green = cacheAtStart[1]

\* C8 amended: the cache holds one snapshot, not two: whenever no update is
\* inside its critical section exactly one slot is non-nil, and after an
\* update it holds the new snapshot while the slot of the superseded
\* snapshot is nil.
C8_OnlyActiveSlotHoldsSnapshot ==
  /\ (http # "off" /\ Main \notin mu) => (IsNil(green) # IsNil(blue))
  /\ RefreshInstalled =>
       /\ ActiveOf(green, blue) = peers
       /\ IF IsNil(cacheAtStart[1]) THEN IsNil(blue) ELSE IsNil(green)

\* C8 witness: an update replaced a snapshot by a different one and the
\* superseded snapshot is in neither slot.
C8_Witness ==
  /\ RefreshInstalled
  /\ ActiveOf(cacheAtStart[1], cacheAtStart[2]) # peers
  /\ ActiveOf(cacheAtStart[1], cacheAtStart[2]) \notin {green, blue}

\* C9: at most one run of loadPeersData is in flight, whatever ticks arrive
\* meanwhile: a run is in flight exactly while the main goroutine is inside
\* loadPeersData, and none is while it is inside update, so that at most
\* one update is in progress.
C9_OneRunInFlight ==
  /\ runs \in {0, 1}
  /\ runs = 1 <=> pc \in {"rvinfo", "loop"}
  /\ Main \in mu => pc \in UpdatePcs /\ runs = 0

\* C9 witness: a tick is waiting in the ticker's channel while a periodic
\* run is in flight.
C9_Witness ==
  runs = 1 /\ caller = "tick" /\ pc = "loop" /\ tick = 1

\* C10: a remote call that fails in a periodic cycle does not stop the
\* process: after a cycle that ended on a directory failure the loop is
\* back at the select, where the next tick starts another cycle.
C10_FailedCycleKeepsLoopRunning ==
  /\ exitCause # "refresh"
  /\ RefreshDirFailed => pc = "select"

\* C11: loadPeersData runs once at startup before any periodic run, and a
\* failure of that run ends the process: the HTTP goroutine is never spawned,
\* the ticker never fires, no periodic run is made and nothing moves again.
C11_StartupFailureIsFatal ==
  /\ pc = "startup" => lastRun = "none" /\ caller = "startup"
  /\ caller = "tick" \/ http # "off" \/ tick = 1 => installed # {}
  /\ caller = "startup" /\ lastRun = "dirfail" => exitCause = "startup"
  /\ exitCause = "startup" =>
       /\ pc = "exited" /\ caller = "startup" /\ lastRun = "dirfail"
       /\ http = "off" /\ tick = 0 /\ installed = {}
       /\ IsNil(green) /\ IsNil(blue)
       /\ \A r \in Readers : rpc[r] = "idle"
       /\ ~ENABLED Next

\* The startup run has failed.
C11_Witness == exitCause = "startup" /\ lastRun = "dirfail"

\* C12: get on a cache with both slots nil returns the nil map: it takes the
\* c.blue branch, has no failing path (each of its steps can be taken), and
\* leaves both slots nil.
C12_GetOnEmptyCacheReturnsNil ==
  IsNil(cacheAtStart[1]) /\ IsNil(cacheAtStart[2]) =>
    /\ IsNil(green) /\ IsNil(blue) /\ exitCause = "none"
    /\ \A r \in Readers :
         /\ rpc[r] \notin {"g_green"}
         /\ rpc[r] = "g_test" => ENABLED GetTest(r)
         /\ rpc[r] = "g_blue" => ENABLED GetRead(r)
         /\ rpc[r] = "g_unlock" => IsNil(rret[r]) /\ ENABLED GetUnlock(r)

\* A get is returning from a cache whose slots were both nil.
C12_Witness ==
  /\ IsNil(cacheAtStart[1]) /\ IsNil(cacheAtStart[2])
  /\ \E r \in Readers : rpc[r] = "g_unlock" /\ IsNil(rret[r])

\* C13 as stated: a get that began after update(s) returned and before the
\* next update was called returns s, the snapshot active when it began, even
\* when that next update has been called, or has returned, by the time the
\* get acquires the mutex.
C13_GetReturnsSnapshotAtItsStart ==
  \A r \in Readers :
    rpc[r] = "g_unlock" =>
      /\ rsince[r] = "none" => rret[r] = ActiveOf(green, blue)
      /\ rsince[r] = "one" => rret[r] = ActiveOf(cacheAtStart[1], cacheAtStart[2])

\* C13: a get returns the snapshot installed at the moment it holds the cache
\* mutex: the argument of the last update that has returned (the
\* constructor's map before any), and still the one before it while a called
\* update waits for the mutex; a get no update was called after returns the
\* snapshot that was active when it began.
C13_GetReturnsSnapshotInstalledAtLock ==
  \A r \in Readers :
    rpc[r] = "g_unlock" =>
      /\ r \in mu /\ pc \notin (UpdatePcs \ {"u_lock"})
      /\ rret[r] = ActiveOf(green, blue) /\ ~IsNil(rret[r])
      /\ RefreshInstalled => rret[r] = peers
      /\ pc = "u_lock" => rret[r] = ActiveOf(cacheAtStart[1], cacheAtStart[2])
      /\ rsince[r] = "none" => pc # "u_lock"

\* A get that began before an update was called returns that update's
\* snapshot, which differs from the one active when the get began.
C13_Witness ==
  \E r \in Readers :
    /\ rpc[r] = "g_unlock" /\ rsince[r] = "one" /\ RefreshInstalled
    /\ rret[r] = peers
    /\ rret[r] # ActiveOf(cacheAtStart[1], cacheAtStart[2])

C15_TotalsAreSums ==
  pc = "construct" =>
    \A e \in DOMAIN peers.m :
      LET deals == dwhDeals[e] IN
        /\ peers.m[e].Count = Len(deals)
        /\ peers.m[e].CPUCount = SumSeq([i \in DOMAIN deals |-> deals[i].cpu])
        /\ peers.m[e].GPUCount = SumSeq([i \in DOMAIN deals |-> deals[i].gpu])
        /\ peers.m[e].RAMSize = SumSeq([i \in DOMAIN deals |-> deals[i].ram])

\* C18 as stated: once the run has returned, a peer for one of whose
\* addresses the geo lookup failed has no record in the snapshot.
C18_UnlocatedPeerHasNoRecord ==
  pc = "construct" =>
    \A e \in Eths : LogOf(e, "geo_err") # {} => e \notin DOMAIN peers.m

\* C18: a failed geo lookup skips its iteration, not the peer or the run:
\* every record carries the latitude and longitude of a successful lookup
\* of an address of its own peer, a peer with no located address has no
\* record, and a peer with a located address keeps its record whatever
\* lookups failed beside it.
C18_RecordsCarryLocatedAddress ==
  /\ pc = "construct" =>
       \A e \in Eths :
         /\ e \in DOMAIN peers.m =>
              \E l \in LogOf(e, "ok") :
                /\ ~GeoCity(l.ip).err
                /\ peers.m[e].Lat = GeoCity(l.ip).Latitude
                /\ peers.m[e].Lon = GeoCity(l.ip).Longitude
         /\ LogOf(e, "ok") = {} => e \notin DOMAIN peers.m
         /\ LogOf(e, "ok") # {} => e \in DOMAIN peers.m
  /\ \A l \in iterLog :
       l.res = "geo_err" => GeoCity(l.ip).err /\ Alive /\ lastRun # "dirfail"

\* The run returned a record for a peer that has one address the geo
\* database does not know and one it located.
C18_Witness ==
  /\ pc = "construct"
  /\ \E e \in DOMAIN peers.m :
       /\ LogOf(e, "geo_err") # {} /\ LogOf(e, "ok") # {}
       /\ peers.m[e].Lat # 0

\* The iterations of the run that have not started and belong to another
\* peer than every lookup in flight.
PendingOtherPeer ==
  {i \in DOMAIN work : /\ work[i] \notin inflight
                        /\ \A f \in inflight : f.addr # work[i].addr}

\* C19 as stated: while one peer's lookup is in flight, the lookup of
\* another peer that is still to be made can start.
C19_LookupsStartConcurrently ==
  (Alive /\ pc = "loop" /\ inflight # {} /\ PendingOtherPeer # {}) => ENABLED LoopCall

\* C19: the lookups of a cycle run one at a time, in the order of the loops:
\* at most one is in flight, it is the first that is left to do, no other
\* starts before it has returned or timed out, which it always can, and then
\* the next one can start.
C19_LookupsRunOneAtATime ==
  /\ Cardinality(inflight) <= 1
  /\ inflight # {} => pc = "loop" /\ work # <<>> /\ inflight = {Head(work)}
  /\ (Alive /\ pc = "loop" /\ inflight # {}) => ~ENABLED LoopCall /\ ENABLED LoopIter
  /\ (Alive /\ pc = "loop" /\ inflight = {} /\ work # <<>>) => ENABLED LoopCall

\* In a periodic cycle one peer's lookup is in flight while another peer's
\* is still to be made.
C19_Witness ==
  /\ Alive /\ pc = "loop" /\ caller = "tick"
  /\ Cardinality(inflight) = 1 /\ PendingOtherPeer # {}

\* C20: the integer income held before the conversion to floating point is
\* the exact sum of the prices of all of the peer's deals times 3600, for
\* every ledger answer and in every record a run returns: nothing is
\* dropped, rounded or wrapped.
C20_IncomeIsExactScaledSum ==
  pc = "construct" =>
    /\ \A deals \in DealLists :
         loadDeals(deals).Income
           = SecondsPerHour * SumSeq([i \in DOMAIN deals |-> deals[i].price])
    /\ \A e \in DOMAIN peers.m :
         /\ peers.m[e].Income
              = SecondsPerHour * SumSeq([i \in DOMAIN dwhDeals[e] |-> dwhDeals[e][i].price])
         /\ \A i \in DOMAIN dwhDeals[e] :
              peers.m[e].Income >= SecondsPerHour * dwhDeals[e][i].price

\* A run returned a record whose income is accumulated over two priced deals.
C20_Witness ==
  /\ pc = "construct"
  /\ \E e \in DOMAIN peers.m :
       /\ Len(dwhDeals[e]) = 2
       /\ \A i \in DOMAIN dwhDeals[e] : dwhDeals[e][i].price > 0
       /\ peers.m[e].Income > SecondsPerHour

\* C21: the handler exists only once the startup run has returned its map
\* and the cache has been built with it; from then on the two slots are
\* never both nil, so whatever a handler's get finds under the mutex, and
\* returns, is a non-nil map that a completed run of loadPeersData returned.
C21_HandlerNeverGetsNil ==
  /\ http # "off" =>
       /\ installed # {} /\ \A s \in installed : ~IsNil(s)
       /\ ~(IsNil(green) /\ IsNil(blue))
       /\ pc \notin {"startup", "construct"}
  /\ \A r \in Readers :
       /\ rpc[r] # "idle" => http = "serving"
       /\ r \in mu => ~IsNil(ActiveOf(green, blue)) /\ ActiveOf(green, blue) \in installed
       /\ rpc[r] = "g_unlock" => r \in mu /\ rret[r] = ActiveOf(green, blue)

\* A handler's get returns the map of a periodic cycle from the blue slot,
\* the green slot having been set to nil by the update.
C21_Witness ==
  /\ RefreshInstalled /\ IsNil(green)
  /\ \E r \in Readers : rpc[r] = "g_unlock" /\ rret[r] = blue /\ ~IsNil(rret[r])

\* relay-mon has ended: main returned or some goroutine called os.Exit(1).
RmDone == rmExit \in {"exit0", "exit1"}

\* C22: relay-mon never deadlocks on its two unbuffered channels: while the
\* process runs some goroutine can take a step, and it eventually ends.  It
\* writes at most one line, only after both replies were received, with the
\* values received; it ends with status 0 exactly when it wrote the line and
\* with an error without having written anything otherwise.
C22_RelayMonEndsWithLineOrError ==
  /\ [](/\ RmAlive => ENABLED NextRelay
        /\ Len(stdout) <= 1
        /\ stdout # <<>> =>
             /\ cluster # <<>> /\ metrics # <<>>
             /\ clusterPc = "done" /\ metricsPc = "done"
             /\ stdout[1].members = cluster[1] /\ stdout[1].conn_count = metrics[1]
             /\ rmExit # "exit1"
        /\ rmExit = "exit0" => Len(stdout) = 1
        /\ rmExit = "exit1" => stdout = <<>>)
  /\ <>RmDone

\* The metrics query has completed first: its goroutine waits to send while
\* main waits for the cluster reply, which is still being queried.
C22_Witness ==
  /\ RmAlive /\ rmPc = "recv_cluster"
  /\ metricsPc = "send" /\ clusterPc = "query"

\* C23: the diff relay-mon reports is members - expected computed on uints:
\* it is members - expected when the cluster has at least the expected
\* number of members, and otherwise the wrapped value 2^w - (expected -
\* members), a large positive number and never a negative one.
C23_MemberDiffWrapsUnsigned ==
  \A i \in DOMAIN stdout :
    LET l == stdout[i] IN
      /\ l.expect = expectedCountFlag /\ l.expect > 0
      /\ l.diff \in 0..(UintMod - 1)
      /\ l.members >= l.expect => l.diff = l.members - l.expect
      /\ l.members < l.expect =>
           /\ l.diff = UintMod - (l.expect - l.members)
           /\ l.diff >= UintMod - MaxExpected
           /\ l.diff > l.members

\* The line has been written for a cluster with fewer members than expected.
C23_Witness ==
  /\ stdout # <<>>
  /\ stdout[1].members < stdout[1].expect
  /\ stdout[1].diff > stdout[1].expect

====
